---------------------------- MODULE Spec2Model ----------------------------
(***************************************************************************)
(* Linear transforms of nitransforms (src/nitransforms/linear.py): Affine, *)
(* LinearTransformsMapping and load, as a state machine over a heap of     *)
(* ndarray buffers, the transform objects a caller holds, the files the    *)
(* format writers produce, and the images apply resamples.                 *)
(*                                                                         *)
(* Numbers are exact rationals <<n, d>> (d > 0, lowest terms), so that     *)
(* "equal within tolerance" is equality and np.linalg.inv is the exact     *)
(* inverse, raising LinAlgError on a singular matrix.                      *)
(***************************************************************************)
EXTENDS Integers, Sequences, FiniteSets, TLC

VARIABLES
    heap,     \* ndarray buffers: buffer id -> array [shape, a]
    xfm,      \* the transform object the caller built (Affine or mapping)
    item,     \* the object last returned by xfm[i], from_filename or load
    files,    \* filesystem: filename -> file content
    written,  \* history: filename -> the transform and format key it was written from
    prev,     \* the outcome of the call before the last (a fed-back map only)
    result    \* the outcome of the last call

vars == <<heap, xfm, item, files, written, prev, result>>

---------------------------------------------------------------------------
(* Bounds of the model.                                                    *)

MaxN == 2          \* longest sequence of transforms given to a mapping
MaxPts == 2        \* most points in a point set given to map
MaxVols == 3       \* most volumes along the 4th axis of the data

---------------------------------------------------------------------------
(* Exact rational arithmetic.                                              *)

Abs(k) == IF k < 0 THEN -k ELSE k

RECURSIVE GCD(_, _)
GCD(a, b) == IF b = 0 THEN a ELSE GCD(b, a % b)

Norm(n, d) ==
    LET g == GCD(Abs(n), Abs(d))
        s == IF d < 0 THEN -1 ELSE 1
    IN  <<(s * n) \div g, (s * d) \div g>>

R(k) == <<k, 1>>
RAdd(p, q) == Norm(p[1] * q[2] + q[1] * p[2], p[2] * q[2])
RMul(p, q) == Norm(p[1] * q[1], p[2] * q[2])
RNeg(p) == <<-p[1], p[2]>>
RDiv(p, q) == Norm(p[1] * q[2], p[2] * q[1])

RECURSIVE RSum(_, _)
\* the sum f[1] + ... + f[n] of rationals
RSum(f, n) == IF n = 0 THEN R(0) ELSE RAdd(RSum(f, n - 1), f[n])

RECURSIVE Prod(_)
\* the product of a tuple of integers (np.prod of a shape)
Prod(s) == IF s = <<>> THEN 1 ELSE s[1] * Prod(Tail(s))

RECURSIVE Flatten(_)
\* the concatenation of a sequence of sequences
Flatten(ss) == IF ss = <<>> THEN <<>> ELSE ss[1] \o Flatten(Tail(ss))

\* the value of a singleton set: v in Only({e(v) : v \in {d}}) stands for
\* the value of d
Only(S) == CHOOSE v \in S : TRUE

RECURSIVE TupleN(_, _)
TupleN(f, n) == IF n = 0 THEN <<>> ELSE Append(TupleN(f, n - 1), f[n])

\* the function f on 1..n as a tuple, each element computed once
Tuple(f) == TupleN(f, Cardinality(DOMAIN f))

---------------------------------------------------------------------------
(* Matrices: a 2-D array's data is a sequence of rows.                     *)

eye(n) ==
    Tuple([i \in 1..n |-> Tuple([j \in 1..n |-> IF i = j THEN R(1) ELSE R(0)])])

Transpose(A) ==
    IF A = <<>> THEN <<>>
    ELSE Tuple([j \in 1..Len(A[1]) |-> Tuple([i \in 1..Len(A) |-> A[i][j]])])

\* A.dot(B) for 2-D A (r x k) and 2-D B (k x c)
dot(A, B) ==
    Tuple([i \in 1..Len(A) |->
        Tuple([j \in 1..Len(B[1]) |->
            RSum(Tuple([k \in 1..Len(B) |-> RMul(A[i][k], B[k][j])]), Len(B))])])

\* A without row i and column j
Minor(A, i, j) ==
    LET n == Len(A)
    IN  Tuple([r \in 1..(n - 1) |->
            Tuple([c \in 1..(n - 1) |->
                A[IF r < i THEN r ELSE r + 1][IF c < j THEN c ELSE c + 1]])])

RECURSIVE det(_)
det(A) ==
    IF Len(A) = 1 THEN A[1][1]
    ELSE RSum(Tuple([j \in 1..Len(A) |->
                  LET t == RMul(A[1][j], det(Minor(A, 1, j)))
                  IN  IF j % 2 = 1 THEN t ELSE RNeg(t)]),
              Len(A))

Cofactor(A, i, j) ==
    LET m == IF Len(A) = 1 THEN R(1) ELSE det(Minor(A, i, j))
    IN  IF (i + j) % 2 = 0 THEN m ELSE RNeg(m)

Singular(A) == det(A) = R(0)

\* np.linalg.inv of one square matrix (the caller has excluded Singular)
inv(A) ==
    LET d == det(A)
    IN  Tuple([i \in 1..Len(A) |->
            Tuple([j \in 1..Len(A) |-> RDiv(Cofactor(A, j, i), d)])])

---------------------------------------------------------------------------
(* Python values.  Every object is a record with a cls field, so that None *)
(* compares with any of them.  An ndarray is a record [shape, a]; the      *)
(* arrays a transform owns live in the heap and are named by a reference   *)
(* [buf, sel]: buffer buf as a whole (sel = <<>>) or the view buf[i, ...]  *)
(* (sel = <<i>>), which shares the buffer's storage.                       *)

None == [cls |-> "NoneType"]

Array(shape, a) == [shape |-> shape, a |-> a]
Mat(rows) == Array(<<Len(rows), Len(rows[1])>>, rows)
ndim(arr) == Len(arr.shape)

NoHeap == [b \in {} |-> None]

Deref(h, ref) ==
    IF ref.sel = <<>> THEN h[ref.buf]
    ELSE Array(Tail(h[ref.buf].shape), h[ref.buf].a[ref.sel[1]])

FreeId(h) == CHOOSE k \in 1..(Cardinality(DOMAIN h) + 1) :
                 /\ k \notin DOMAIN h
                 /\ \A j \in 1..(k - 1) : j \in DOMAIN h

\* a new buffer holding arr: [heap, ref]
Alloc(h, arr) ==
    LET k == FreeId(h)
    IN  [heap |-> [b \in DOMAIN h \cup {k} |-> IF b = k THEN arr ELSE h[b]],
         ref |-> [buf |-> k, sel |-> <<>>]]

IsRef(m) == "buf" \in DOMAIN m

\* the array an argument denotes: a nested list or array given by value, or
\* a view of a buffer
ValueOf(h, m) == IF IsRef(m) THEN Deref(h, m) ELSE m

\* arr[r][c] := v written through a reference to a 2-D array (an in-place
\* ndarray assignment): the buffer the reference names is what changes
Store(h, ref, r, c, v) ==
    LET old == h[ref.buf]
        new == IF ref.sel = <<>>
               THEN [old EXCEPT !.a[r][c] = v]
               ELSE [old EXCEPT !.a[ref.sel[1]][r][c] = v]
    IN  [h EXCEPT ![ref.buf] = new]

\* reference counting: the buffers no live object names are freed
Collect(h, objs) ==
    LET live == {o._matrix.buf : o \in {p \in objs : p # None}}
    IN  [b \in DOMAIN h \cap live |-> h[b]]

Ok(v) == [exc |-> "none", value |-> v]
Raise(e) == [exc |-> e, value |-> None]

---------------------------------------------------------------------------
(* Collaborators defined in nitransforms/base.py.                          *)

\* TransformBase.reference (setter): binds the given grid object itself
Reference_set(self, image) == [self EXCEPT !._reference = image]

\* an ImageGrid: an object (oid is its identity) with the shape of a grid
\* and its voxel-to-physical affine
Grid(oid, shape, affine) ==
    [cls |-> "ImageGrid", oid |-> oid, shape |-> shape, affine |-> affine]

\* _as_homogeneous(xyz, dim): N x dim points -> N x (dim + 1), a 1 appended
\* to each; points already dim + 1 wide are returned as they are
as_homogeneous(xyz, dim) ==
    Tuple([p \in 1..Len(xyz) |->
        IF Len(xyz[p]) = dim + 1 THEN xyz[p] ELSE Append(xyz[p], R(1))])

---------------------------------------------------------------------------
(* class Affine                                                            *)

\* the mutant of Affine_init: np.asarray in place of np.array, which keeps
\* an ndarray argument's storage instead of copying it
Affine_init_asarray(h, matrix, reference) ==
    LET given == IF matrix = None THEN Mat(eye(4)) ELSE matrix
        al == IF IsRef(given) THEN [heap |-> h, ref |-> given]
              ELSE Alloc(h, given)
        arr == Deref(al.heap, al.ref)
        self == [cls |-> "Affine", _matrix |-> al.ref, _reference |-> None]
    IN  IF ndim(arr) # 2 THEN [exc |-> "TypeError", self |-> None, heap |-> h]
        ELSE IF arr.shape[1] # arr.shape[2]
             THEN [exc |-> "TypeError", self |-> None, heap |-> h]
        ELSE [exc |-> "none",
              self |-> IF reference # None
                       THEN Reference_set(self, reference) ELSE self,
              heap |-> al.heap]

\* Affine.__init__(matrix=None, reference=None) in heap h:
\* [exc, self, heap]
Affine_init(h, matrix, reference) ==
    LET given == IF matrix = None THEN Mat(eye(4)) ELSE matrix
        al == Alloc(h, ValueOf(h, given))          \* np.array(matrix) copies
        arr == Deref(al.heap, al.ref)
        self == [cls |-> "Affine", _matrix |-> al.ref, _reference |-> None]
    IN  IF ndim(arr) # 2 THEN [exc |-> "TypeError", self |-> None, heap |-> h]
        ELSE IF arr.shape[1] # arr.shape[2]
             THEN [exc |-> "TypeError", self |-> None, heap |-> h]
        ELSE [exc |-> "none",
              self |-> IF reference # None
                       THEN Reference_set(self, reference) ELSE self,
              heap |-> al.heap]

\* Affine.matrix (property): the internal array itself
matrix(h, self) == Deref(h, self._matrix)

\* the mutant of Affine_map: the inverse flag is ignored
Affine_map_forward_only(h, self, x, inverse) ==
    LET affine == matrix(h, self).a
        coords == Transpose(as_homogeneous(x, Len(affine) - 1))
        y == Transpose(dot(affine, coords))
    IN  Ok(Array(<<Len(y), Len(affine) - 1>>,
                 Tuple([p \in 1..Len(y) |-> SubSeq(y[p], 1, Len(y[p]) - 1)])))

\* Affine.map(x, inverse)
Affine_map(h, self, x, inverse) ==
    LET affine == matrix(h, self).a
        coords == Transpose(as_homogeneous(x, Len(affine) - 1))
    IN  IF inverse = TRUE /\ Singular(affine) THEN Raise("LinAlgError")
        ELSE LET used == IF inverse = TRUE THEN inv(affine) ELSE affine
                 y == Transpose(dot(used, coords))
             IN  Ok(Array(<<Len(y), Len(affine) - 1>>,
                          Tuple([p \in 1..Len(y) |->
                              SubSeq(y[p], 1, Len(y[p]) - 1)])))

---------------------------------------------------------------------------
(* Format adapters of nitransforms/io, at the level of their contracts:    *)
(* what a writer puts in a file and what a reader makes of it.             *)

\* TransformBase.reference (getter)
reference_of(self) == self._reference

\* ImageGrid(image): the sampling grid of an image
ImageGrid(image) ==
    IF image.cls = "ImageGrid" THEN image
    ELSE Grid(<<"ImageGrid", image.oid>>,
              SubSeq(image.shape, 1, IF Len(image.shape) < 3
                                     THEN Len(image.shape) ELSE 3),
              image.affine)

\* io.VolumeGeometry.from_image(img): the geometry fields of img
VolumeGeometry_from_image(img) ==
    IF img = None THEN None
    ELSE [cls |-> "VolumeGeometry", shape |-> img.shape, affine |-> img.affine]

\* the flip between RAS and LPS axes
LPS == Tuple([i \in 1..4 |-> Tuple([j \in 1..4 |->
           IF i # j THEN R(0) ELSE IF i <= 2 THEN R(-1) ELSE R(1)])])

\* io.itk.ITKLinearTransform.from_ras(ras): the matrix in ITK's LPS axes
ITKLinearTransform_from_ras(ras) ==
    [cls |-> "ITKLinearTransform", parameters |-> dot(LPS, dot(ras, LPS))]

\* io.itk.ITKLinearTransformArray.from_ras(ras) of an N x 4 x 4 stack
ITKLinearTransformArray_from_ras(ras) ==
    [cls |-> "ITKLinearTransformArray",
     xforms |-> Tuple([i \in 1..Len(ras) |->
                    ITKLinearTransform_from_ras(ras[i])])]

\* to_filename of the ITK adapters: one text layout for one transform or many
ITK_file(obj) ==
    [format |-> "itk",
     transforms |-> IF obj.cls = "ITKLinearTransform" THEN <<obj.parameters>>
                    ELSE Tuple([i \in 1..Len(obj.xforms) |->
                                   obj.xforms[i].parameters])]

\* io.itk.ITKLinearTransformArray.from_filename(filename).to_ras(): N x 4 x 4
ITKLinearTransformArray_to_ras(file) ==
    Array(<<Len(file.transforms), 4, 4>>,
          Tuple([i \in 1..Len(file.transforms) |->
              dot(LPS, dot(file.transforms[i], LPS))]))

\* io.afni / io.fsl from_ras(...).to_filename: the tool's encoding of ras
\* against the two grids, kept as an uninterpreted term
Voxel_file(tool, ras, moving, reference) ==
    [format |-> tool,
     transforms |-> Tuple([i \in 1..Len(ras) |->
         [ras |-> ras[i],
          moving |-> VolumeGeometry_from_image(moving),
          reference |-> VolumeGeometry_from_image(reference)]])]

\* lta.to_string() written to a file: the container's type and records
LTA_file(lta) == [format |-> "lta", type |-> lta.type, xforms |-> lta.xforms]

\* io.LinearTransformArray.from_filename(filename).to_ras() of a RAS2RAS
\* container: the matrices of its records' matrix lists, in order
LinearTransformArray_to_ras(file) ==
    LET mats == Flatten(Tuple([i \in 1..Len(file.xforms) |->
                                  file.xforms[i].m_L]))
    IN  Array(<<Len(mats), 4, 4>>, mats)

\* str.lower() on the format keys callers pass
lower(fmt) ==
    CASE fmt = "ITK" -> "itk"
      [] fmt = "Elastix" -> "elastix"
      [] fmt = "FSL" -> "fsl"
      [] fmt = "FS" -> "fs"
      [] fmt = "LTA" -> "lta"
      [] fmt = "X5" -> "x5"
      [] OTHER -> fmt

---------------------------------------------------------------------------
(* class Affine: format export.                                            *)

Write(fs, filename, content) ==
    [f \in DOMAIN fs \cup {filename} |->
        IF f = filename THEN content ELSE fs[f]]

\* the mutant of Affine_to_filename: the format key is compared as given,
\* without lower()
Affine_to_filename_as_given(h, self, fs, filename, fmt, moving) ==
    IF fmt \in {"itk", "ants", "elastix"}
    THEN [exc |-> "none",
          files |-> Write(fs, filename,
              ITK_file(ITKLinearTransform_from_ras(matrix(h, self).a)))]
    ELSE LET mov == IF moving # None THEN ImageGrid(moving)
                    ELSE reference_of(self)
         IN  IF fmt \in {"afni", "fsl"}
             THEN [exc |-> "none",
                   files |-> Write(fs, filename,
                       Voxel_file(fmt, <<matrix(h, self).a>>, mov,
                                  reference_of(self)))]
             ELSE IF fmt = "fs"
             THEN [exc |-> "none",
                   files |-> Write(fs, filename,
                       LTA_file([type |-> 1,
                                 xforms |-> <<[sigma |-> 1,
                                               m_L |-> <<matrix(h, self).a>>,
                                               src |-> VolumeGeometry_from_image(mov),
                                               dst |-> VolumeGeometry_from_image(
                                                           reference_of(self))]>>]))]
             ELSE [exc |-> "NotImplementedError", files |-> fs]

\* Affine.to_filename(filename, fmt, moving) on filesystem fs: [exc, files]
Affine_to_filename(h, self, fs, filename, fmt, moving) ==
    IF lower(fmt) \in {"itk", "ants", "elastix"}
    THEN [exc |-> "none",
          files |-> Write(fs, filename,
              ITK_file(ITKLinearTransform_from_ras(matrix(h, self).a)))]
    ELSE \* Rest of the formats peek into moving and reference image grids
         LET mov == IF moving # None THEN ImageGrid(moving)
                    ELSE reference_of(self)
         IN  IF lower(fmt) = "afni"
             THEN [exc |-> "none",
                   files |-> Write(fs, filename,
                       Voxel_file("afni", <<matrix(h, self).a>>, mov,
                                  reference_of(self)))]
             ELSE IF lower(fmt) = "fsl"
             THEN [exc |-> "none",
                   files |-> Write(fs, filename,
                       Voxel_file("fsl", <<matrix(h, self).a>>, mov,
                                  reference_of(self)))]
             ELSE IF lower(fmt) = "fs"
             THEN [exc |-> "none",
                   files |-> Write(fs, filename,
                       LTA_file([type |-> 1,     \* RAS2RAS
                                 xforms |-> <<[sigma |-> 1,
                                               m_L |-> <<matrix(h, self).a>>,
                                               src |-> VolumeGeometry_from_image(mov),
                                               dst |-> VolumeGeometry_from_image(
                                                           reference_of(self))]>>]))]
             ELSE [exc |-> "NotImplementedError", files |-> fs]

---------------------------------------------------------------------------
(* class LinearTransformsMapping(Affine)                                   *)

List(items) == [cls |-> "list", items |-> items]

\* np.shape(transforms)[0] of a list or of an N x (D+1) x (D+1) array
shape0(transforms) ==
    IF "items" \in DOMAIN transforms THEN Len(transforms.items)
    ELSE transforms.shape[1]

\* the elements "for xfm in transforms" visits
Elements(transforms) ==
    IF "items" \in DOMAIN transforms THEN transforms.items
    ELSE Tuple([i \in 1..transforms.shape[1] |->
             Array(Tail(transforms.shape), transforms.a[i])])

\* np.stack(arrays, axis=0): [exc, value]
stack(arrays) ==
    IF \E i \in 1..Len(arrays) : arrays[i].shape # arrays[1].shape
    THEN Raise("ValueError")
    ELSE Ok(Array(<<Len(arrays)>> \o arrays[1].shape,
                  Tuple([i \in 1..Len(arrays) |-> arrays[i].a])))

\* the mutant of LinearTransformsMapping_init: fewer than two elements are
\* rejected, as the error message says
LinearTransformsMapping_init_two(h, transforms, reference) ==
    LET base == Affine_init(h, None, reference)
    IN  IF transforms = None \/ shape0(transforms) < 2
        THEN [exc |-> "TypeError", self |-> None, heap |-> h]
        ELSE LET st == stack(Tuple([i \in 1..shape0(transforms) |->
                          LET e == Elements(transforms)[i]
                          IN  IF "cls" \in DOMAIN e THEN matrix(h, e) ELSE e]))
                 al == Alloc(h, st.value)
             IN  [exc |-> "none",
                  self |-> [base.self EXCEPT !.cls = "LinearTransformsMapping",
                                             !._matrix = al.ref],
                  heap |-> al.heap]

\* LinearTransformsMapping.__init__(transforms, reference=None) in heap h:
\* [exc, self, heap]
LinearTransformsMapping_init(h, transforms, reference) ==
    LET base == Affine_init(h, None, reference)   \* super().__init__
    IN  IF transforms = None \/ shape0(transforms) < 1
        THEN [exc |-> "TypeError", self |-> None, heap |-> h]
        ELSE LET elems == Elements(transforms)
                 \* (xfm if isinstance(xfm, Affine) else Affine(xfm))
                 each == Tuple([i \in 1..Len(elems) |->
                             IF "cls" \in DOMAIN elems[i]
                             THEN [exc |-> "none", self |-> elems[i], heap |-> h]
                             ELSE Affine_init(h, elems[i], None)])
             IN  IF \E i \in 1..Len(elems) : each[i].exc # "none"
                 THEN [exc |-> "TypeError", self |-> None, heap |-> h]
                 ELSE LET st == stack(Tuple([i \in 1..Len(elems) |->
                                          matrix(each[i].heap, each[i].self)]))
                          al == Alloc(h, st.value)
                      IN  IF st.exc # "none"
                          THEN [exc |-> st.exc, self |-> None, heap |-> h]
                          ELSE [exc |-> "none",
                                self |-> [base.self EXCEPT
                                    !.cls = "LinearTransformsMapping",
                                    !._matrix = al.ref],
                                heap |-> al.heap]

\* LinearTransformsMapping.__len__
len(h, self) == matrix(h, self).shape[1]

\* LinearTransformsMapping.__getitem__(i), i counted from 0:
\* [exc, self, heap]
LinearTransformsMapping_getitem(h, self, i) ==
    IF i < 0 \/ i >= len(h, self)
    THEN [exc |-> "IndexError", self |-> None, heap |-> h]
    ELSE Affine_init(h, [buf |-> self._matrix.buf, sel |-> <<i + 1>>],
                     self._reference)

\* LinearTransformsMapping.map(x, inverse): an N x npoints x (D + 1) array
LinearTransformsMapping_map(h, self, x, inverse) ==
    LET affine == matrix(h, self)
        n == affine.shape[1]
        coords == Transpose(as_homogeneous(x, affine.shape[3] - 1))
    IN  IF inverse = TRUE /\ \E i \in 1..n : Singular(affine.a[i])
        THEN Raise("LinAlgError")
        ELSE LET used == IF inverse = TRUE
                         THEN Tuple([i \in 1..n |-> inv(affine.a[i])])
                         ELSE affine.a
                 \* affine.dot(coords) is N x (D + 1) x npoints; swapaxes(1, 2)
             IN  Ok(Array(<<n, Len(x), affine.shape[3]>>,
                          Tuple([i \in 1..n |->
                              Transpose(dot(used[i], coords))])))

\* LinearTransformsMapping.to_filename(filename, fmt, moving): [exc, files]
LinearTransformsMapping_to_filename(h, self, fs, filename, fmt, moving) ==
    IF lower(fmt) \in {"itk", "ants", "elastix"}
    THEN [exc |-> "none",
          files |-> Write(fs, filename,
              ITK_file(ITKLinearTransformArray_from_ras(matrix(h, self).a)))]
    ELSE LET mov == IF moving # None THEN ImageGrid(moving)
                    ELSE reference_of(self)
         IN  IF lower(fmt) = "afni"
             THEN [exc |-> "none",
                   files |-> Write(fs, filename,
                       Voxel_file("afni", matrix(h, self).a, mov,
                                  reference_of(self)))]
             ELSE IF lower(fmt) = "fsl"
             THEN [exc |-> "none",
                   files |-> Write(fs, filename,
                       Voxel_file("fsl", matrix(h, self).a, mov,
                                  reference_of(self)))]
             ELSE IF lower(fmt) = "fs"
             THEN [exc |-> "none",
                   files |-> Write(fs, filename,
                       LTA_file([type |-> 1,     \* RAS2RAS
                                 xforms |-> <<[sigma |-> 1,
                                               m_L |-> matrix(h, self).a,
                                               src |-> VolumeGeometry_from_image(mov),
                                               dst |-> VolumeGeometry_from_image(
                                                           reference_of(self))]>>]))]
             ELSE [exc |-> "NotImplementedError", files |-> fs]

---------------------------------------------------------------------------
(* Resampling: LinearTransformsMapping.apply.  The voxels of an image are  *)
(* not given values: a sample is the term [of, at], the array that was     *)
(* interpolated and the fractional index it was interpolated at.           *)

\* SpatialReference.factory(reference): an image becomes its grid, any other
\* set of sampled points is taken as it is
SpatialReference_factory(reference) ==
    IF reference.cls \in {"SpatialImage", "ImageGrid"}
    THEN ImageGrid(reference) ELSE reference

\* _ref.ndim: the number of coordinates of a point of the reference
ref_ndim(ref) == IF ref.cls = "ImageGrid" THEN Len(ref.shape) ELSE ref.ndim

RECURSIVE unravel(_, _)
\* the index of the k-th element (from 0) of an array of this shape, the
\* last axis running fastest (np.ndindex)
unravel(k, shape) ==
    IF shape = <<>> THEN <<>>
    ELSE Append(unravel(k \div shape[Len(shape)],
                        SubSeq(shape, 1, Len(shape) - 1)),
                k % shape[Len(shape)])

\* _ref.ndcoords.T: the physical coordinates of every sample of the
\* reference, npoints x ndim; for a grid, its voxels in raster order
ndcoords_T(ref) ==
    IF ref.cls # "ImageGrid" THEN ref.coords
    ELSE Tuple([k \in 1..Prod(ref.shape) |->
             LET ijk == unravel(k - 1, ref.shape)
                 col == Tuple([d \in 1..(Len(ijk) + 1) |->
                            <<IF d > Len(ijk) THEN R(1) ELSE R(ijk[d])>>])
                 ras == dot(ref.affine, col)
             IN  Tuple([d \in 1..Len(ijk) |-> ras[d][1]])])

\* ImageGrid.index(x): the fractional voxel indices of the physical points
\* x, npoints x ndim
ImageGrid_index(grid, x) ==
    LET ijk == Transpose(dot(inv(grid.affine),
                             Transpose(as_homogeneous(x, Len(grid.shape)))))
    IN  Tuple([p \in 1..Len(ijk) |-> SubSeq(ijk[p], 1, Len(grid.shape))])

\* np.squeeze(np.asanyarray(spatialimage.dataobj)): the axes of length one
\* are dropped; the array is named by the image it is the data of
squeeze(spatialimage) ==
    [shape |-> SelectSeq(spatialimage.shape, LAMBDA n : n # 1),
     of |-> spatialimage.oid, vol |-> "all"]

\* data[..., t]
volume(data, t) ==
    [shape |-> SubSeq(data.shape, 1, Len(data.shape) - 1),
     of |-> data.of, vol |-> t]

\* ndi.map_coordinates(input, coordinates): one sample for each column of
\* coordinates, which has a row for each axis of input: [exc, value, call]
map_coordinates(input, coordinates) ==
    [exc |-> IF Len(coordinates) # Len(input.shape)
             THEN "RuntimeError" ELSE "none",
     value |-> IF Len(coordinates) # Len(input.shape) THEN None
               ELSE Tuple([c \in 1..Len(coordinates[1]) |->
                        [of |-> input,
                         at |-> Tuple([d \in 1..Len(coordinates) |->
                                    coordinates[d][c]])]]),
     call |-> [input |-> input, coordinates |-> coordinates]]

\* x[..., :ndim].T of a list of points x
first_T(x, dim) == Transpose(Tuple([p \in 1..Len(x) |-> SubSeq(x[p], 1, dim)]))

\* the mutant of series_targets: every volume gets the first transform's
\* sample locations
series_targets_first(targets, n, t) ==
    SubSeq(targets, 1, Len(targets) \div n)

\* targets.reshape((len(self), -1, targets.shape[-1]))[t]
series_targets(targets, n, t) ==
    SubSeq(targets, t * (Len(targets) \div n) + 1,
                    (t + 1) * (Len(targets) \div n))

\* np.stack([...], axis=0) of the calls of the loop: the first call that
\* raises ends the loop: [exc, log, value]
stack_calls(calls) ==
    IF \E t \in 1..Len(calls) : calls[t].exc # "none"
    THEN LET t == CHOOSE u \in 1..Len(calls) :
                      /\ calls[u].exc # "none"
                      /\ \A w \in 1..(u - 1) : calls[w].exc = "none"
         IN  [exc |-> calls[t].exc,
              log |-> Tuple([u \in 1..t |-> calls[u].call]),
              value |-> None]
    ELSE [exc |-> "none",
          log |-> Tuple([u \in 1..Len(calls) |-> calls[u].call]),
          value |-> Array(<<Len(calls), Len(calls[1].value)>>,
                          Tuple([u \in 1..Len(calls) |-> calls[u].value]))]

\* the mutant of resample_series: the volumes both sides have are
\* interpolated first, and the count of volumes is compared afterwards
resample_series_late(data, targets, n, dim) ==
    LET T == data.shape[Len(data.shape)]
        both == IF n < T THEN n ELSE T
        done == stack_calls(Tuple([t \in 1..both |->
                    map_coordinates(volume(data, t - 1),
                        first_T(series_targets(targets, n, t - 1), dim))]))
    IN  IF n # T
        THEN [exc |-> "ValueError", log |-> done.log, value |-> None]
        ELSE done

\* the branch for data.ndim == 4: [exc, log, value], log the calls of
\* map_coordinates made, value the T x nvoxels array of samples
resample_series(data, targets, n, dim) ==
    IF n # data.shape[Len(data.shape)]
    THEN [exc |-> "ValueError", log |-> <<>>, value |-> None]
    ELSE stack_calls(Tuple([t \in 1..data.shape[Len(data.shape)] |->
             map_coordinates(volume(data, t - 1),
                 first_T(series_targets(targets, n, t - 1), dim))]))

\* the call of map_coordinates of the branch for data.ndim in (2, 3)
volume_call(c) ==
    [exc |-> c.exc, log |-> <<c.call>>,
     value |-> IF c.exc # "none" THEN None
               ELSE Array(<<Len(c.value)>>, c.value)]

\* the branches on data.ndim; for any other data.ndim the name resampled is
\* left unbound
resample(data, targets, n, dim) ==
    IF Len(data.shape) = 4 THEN resample_series(data, targets, n, dim)
    ELSE IF Len(data.shape) \in {2, 3}
    THEN volume_call(map_coordinates(data, first_T(targets, dim)))
    ELSE [exc |-> "none", log |-> <<>>, value |-> [cls |-> "unbound"]]

\* np.moveaxis(resampled.reshape((n, *shape)), 0, -1): [exc, value]
reshape_moveaxis(resampled, n, shape) ==
    LET flat == IF Len(resampled.shape) = 1 THEN resampled.a
                ELSE Flatten(resampled.a)
    IN  IF Len(flat) # n * Prod(shape) THEN Raise("ValueError")
        ELSE Ok(Array(shape \o <<n>>,
                      Tuple([k \in 1..Len(flat) |->
                          flat[((k - 1) % n) * Prod(shape)
                               + ((k - 1) \div n) + 1]])))

\* the new image: spatialimage.__class__(dataobj, affine, header)
moved_image(spatialimage, _ref, r) ==
    IF r.exc # "none" THEN None
    ELSE [cls |-> spatialimage.cls, oid |-> <<"moved", spatialimage.oid>>,
          shape |-> r.value.shape, affine |-> _ref.affine,
          dataobj |-> r.value.a]

\* the end of apply, from "if isinstance(_ref, ImageGrid)"
apply_return(n, spatialimage, _ref, r) ==
    IF r.exc # "none" THEN r
    ELSE IF r.value = [cls |-> "unbound"]
    THEN [exc |-> "UnboundLocalError", log |-> r.log, value |-> None]
    ELSE IF _ref.cls = "ImageGrid"
    THEN [exc |-> reshape_moveaxis(r.value, n, _ref.shape).exc,
          log |-> r.log,
          value |-> moved_image(spatialimage, _ref,
                                reshape_moveaxis(r.value, n, _ref.shape))]
    ELSE r

\* apply, from "targets = ...", the samples ycoords mapped
apply_targets(n, spatialimage, _ref, ycoords) ==
    Only({apply_return(n, spatialimage, _ref,
                       resample(squeeze(spatialimage), targets, n,
                                ref_ndim(_ref))) :
          targets \in {ImageGrid_index(ImageGrid(spatialimage),
                           as_homogeneous(Flatten(ycoords.a),
                                          ref_ndim(_ref)))}})

\* apply, from "data = np.squeeze(...)", the reference _ref resolved
apply_on(h, self, spatialimage, _ref) ==
    Only({apply_targets(len(h, self), spatialimage, _ref, ycoords.value) :
          ycoords \in {LinearTransformsMapping_map(h, self, ndcoords_T(_ref),
                                                  FALSE)}})

\* LinearTransformsMapping.apply(spatialimage, reference): [exc, log,
\* value]; with no reference given and none bound, self.reference is None
LinearTransformsMapping_apply(h, self, spatialimage, reference) ==
    IF reference = None /\ reference_of(self) = None
    THEN [exc |-> "AttributeError", log |-> <<>>, value |-> None]
    ELSE apply_on(h, self, spatialimage,
                  IF reference = None THEN reference_of(self)
                  ELSE SpatialReference_factory(reference))

---------------------------------------------------------------------------
(* Format import: the class method from_filename, and load.                *)

\* the end of from_filename: cls built from the N x 4 x 4 array to_ras gave
from_ras_matrix(h, cls, m, reference) ==
    IF cls = "Affine"
    THEN IF m.shape[1] # 1
         THEN [exc |-> "TypeError", self |-> None, heap |-> h]
         ELSE Affine_init(h, Array(Tail(m.shape), m.a[1]), reference)
    ELSE LinearTransformsMapping_init(h, m, reference)

\* the mutant of Affine_from_filename: the key "fs" is missing from the
\* reader's table, which knows the LTA files as "lta" only
Affine_from_filename_no_fs(h, fs, cls, filename, fmt, reference, moving) ==
    IF lower(fmt) \in {"itk", "ants", "elastix"}
    THEN from_ras_matrix(h, cls, ITKLinearTransformArray_to_ras(fs[filename]),
                         reference)
    ELSE IF lower(fmt) \in {"lta"}
    THEN from_ras_matrix(h, cls, LinearTransformArray_to_ras(fs[filename]),
                         reference)
    ELSE [exc |-> "NotImplementedError", self |-> None, heap |-> h]

\* cls.from_filename(filename, fmt, reference, moving) for cls Affine or
\* LinearTransformsMapping: [exc, self, heap]
Affine_from_filename(h, fs, cls, filename, fmt, reference, moving) ==
    IF lower(fmt) \in {"itk", "ants", "elastix"}
    THEN \* struct = _factory.from_filename(filename); struct.to_ras(...)
         from_ras_matrix(h, cls, ITKLinearTransformArray_to_ras(fs[filename]),
                         reference)
    ELSE IF lower(fmt) \in {"lta", "fs"}
    THEN from_ras_matrix(h, cls, LinearTransformArray_to_ras(fs[filename]),
                         reference)
    ELSE [exc |-> "NotImplementedError", self |-> None, heap |-> h]

\* the mutant of load: the mapping is returned as loaded, never unwrapped
load_mapping(h, fs, filename, fmt, reference, moving) ==
    Affine_from_filename(h, fs, "LinearTransformsMapping", filename, fmt,
                         reference, moving)

\* the end of load: a mapping of one element is returned as its element
load_return(loaded) ==
    IF loaded.exc # "none" THEN loaded
    ELSE IF len(loaded.heap, loaded.self) = 1
         THEN LinearTransformsMapping_getitem(loaded.heap, loaded.self, 0)
         ELSE loaded

\* load(filename, fmt, reference, moving): [exc, self, heap]
load(h, fs, filename, fmt, reference, moving) ==
    load_return(Affine_from_filename(h, fs, "LinearTransformsMapping",
                                     filename, fmt, reference, moving))

---------------------------------------------------------------------------
(* The arguments callers pass.                                             *)

SeqsUpTo(S, n) == UNION {[1..k -> S] : k \in 1..n}

\* a (D+1) x (D+1) matrix for D = 3: scale s and shear k along x, shift
\* (t, 2t, 3t), and last row (0, 0, 0, w); w = 1 is the homogeneous row
MatrixOf(s, k, t, w) ==
    << <<R(s), R(k), R(0), R(t)>>,
       <<R(0), R(1), R(0), R(2 * t)>>,
       <<R(0), R(0), R(1), R(3 * t)>>,
       <<R(0), R(0), R(0), R(w)>> >>

Matrices == {MatrixOf(s, k, t, w) : s \in {0, 1, 2}, k \in {0, 1},
                                    t \in {-1, 0, 1}, w \in {1, 2}}

\* matrices given to a mapping
SeriesMatrices == {MatrixOf(s, 0, t, 1) : s \in {0, 1, 2}, t \in {-1, 1}}

\* arrays Affine refuses: a vector, and a matrix that is not square
BadArrays == {Array(<<4>>, <<R(1), R(0), R(0), R(1)>>),
              Mat(<< <<R(1), R(0), R(0), R(1)>>, <<R(0), R(1), R(0), R(2)>> >>)}

Points == {<<R(0), R(0), R(0)>>, <<R(1), R(-1), R(2)>>}
PointSets == SeqsUpTo(Points, MaxPts)

\* one element of the sequence given to a mapping: a matrix as it is, or an
\* Affine instance the caller built from it
SeriesElements == [as : {"matrix", "Affine"}, m : {Mat(M) : M \in SeriesMatrices}]

RECURSIVE Instances(_, _)
\* the caller's sequence: each "Affine" element constructed: [heap, items]
Instances(h, descs) ==
    IF descs = <<>> THEN [heap |-> h, items |-> <<>>]
    ELSE LET d == descs[1]
             head == IF d.as = "Affine" THEN Affine_init(h, d.m, None)
                     ELSE [self |-> d.m, heap |-> h]
             rest == Instances(head.heap, Tail(descs))
         IN  [heap |-> rest.heap, items |-> <<head.self>> \o rest.items]

\* the grid a caller binds as reference: 2 x 1 x 1 voxels, 2 mm apart along x
ReferenceGrid ==
    Grid("reference", <<2, 1, 1>>,
         << <<R(2), R(0), R(0), R(0)>>, <<R(0), R(1), R(0), R(0)>>,
            <<R(0), R(0), R(1), R(0)>>, <<R(0), R(0), R(0), R(1)>> >>)

\* a spatial image: its data array's shape and its voxel-to-physical affine
Image(oid, shape, affine) ==
    [cls |-> "SpatialImage", oid |-> oid, shape |-> shape, affine |-> affine]

\* the image a caller names as moving: 2 x 2 x 2 voxels, shifted by 1 mm
MovingImage ==
    Image("moving", <<2, 2, 2>>,
          << <<R(1), R(0), R(0), R(1)>>, <<R(0), R(1), R(0), R(0)>>,
             <<R(0), R(0), R(1), R(0)>>, <<R(0), R(0), R(0), R(1)>> >>)

\* the matrices of the transforms written to files
FileMatrices == {MatrixOf(2, 1, 1, 1), MatrixOf(1, 0, -1, 1)}

\* the format keys callers pass
FormatKeys == {"itk", "ITK", "ants", "Elastix", "afni", "fsl", "FSL",
               "fs", "FS", "lta", "LTA", "X5"}

Filenames == {"xfm.txt"}

EmptyFiles == [f \in {} |-> None]

Init ==
    /\ heap = NoHeap
    /\ xfm = None
    /\ item = None
    /\ files = EmptyFiles
    /\ written = EmptyFiles
    /\ prev = None
    /\ result = [op |-> "none", exc |-> "none"]

---------------------------------------------------------------------------
(* Construction and point mapping.                                         *)

\* item = a call, where the call gave r = [exc, self, heap]: on an exception
\* item keeps the object it named; call records the call's arguments
Returned(r, call) ==
    /\ item' = (IF r.exc = "none" THEN r.self ELSE item)
    /\ heap' = Collect(r.heap, {xfm, IF r.exc = "none" THEN r.self ELSE item})
    /\ result' = [exc |-> r.exc] @@ call


\* xfm = Affine(m, reference)
New_Affine(m, reference) ==
    /\ xfm = None
    /\ LET r == Affine_init(heap, m, reference)
       IN  /\ xfm' = r.self
           /\ heap' = Collect(r.heap, {r.self, item})
           /\ result' = [op |-> "Affine", exc |-> r.exc, matrix |-> m]
    /\ UNCHANGED <<item, files, written, prev>>

\* xfm = LinearTransformsMapping(transforms, reference); transforms is None
\* or a list of descs
New_Mapping(descs, reference) ==
    /\ xfm = None
    /\ LET args == IF descs = None THEN [heap |-> heap, items |-> <<>>]
                   ELSE Instances(heap, descs.items)
           r == LinearTransformsMapping_init(
                    args.heap,
                    IF descs = None THEN None ELSE List(args.items),
                    reference)
       IN  /\ xfm' = r.self
           /\ heap' = Collect(r.heap, {r.self, item})
           /\ result' = [op |-> "LinearTransformsMapping", exc |-> r.exc,
                         transforms |-> descs]
    /\ UNCHANGED <<item, files, written, prev>>

\* xfm.map(x, inverse), the method of xfm's class
map(h, self, x, inverse) ==
    IF self.cls = "LinearTransformsMapping"
    THEN LinearTransformsMapping_map(h, self, x, inverse)
    ELSE Affine_map(h, self, x, inverse)

\* each run calls map once on the transform it built: map changes no state,
\* so a further call reaches nothing new
Call_map(x, inverse) ==
    /\ xfm # None /\ result.op # "map"
    /\ LET r == map(heap, xfm, x, inverse)
       IN  result' = [op |-> "map", exc |-> r.exc, value |-> r.value,
                      x |-> x, inverse |-> inverse]
    /\ prev' = None
    /\ UNCHANGED <<heap, xfm, item, files, written>>

\* the points an Affine.map returned are mapped again
Call_map_again(inverse) ==
    /\ xfm # None /\ xfm.cls = "Affine"
    /\ result.op = "map" /\ result.exc = "none" /\ prev = None
    /\ LET r == map(heap, xfm, result.value.a, inverse)
       IN  result' = [op |-> "map", exc |-> r.exc, value |-> r.value,
                      x |-> result.value.a, inverse |-> inverse]
    /\ prev' = result
    /\ UNCHANGED <<heap, xfm, item, files, written>>

NextMap ==
    \/ \E m \in {None} \cup {Mat(M) : M \in Matrices} \cup BadArrays :
           New_Affine(m, None)
    \/ \E descs \in {None, List(<<>>)}
                    \cup {List(d) : d \in SeqsUpTo(SeriesElements, MaxN)} :
           New_Mapping(descs, None)
    \/ \E x \in PointSets, inverse \in BOOLEAN : Call_map(x, inverse)
    \/ \E inverse \in BOOLEAN : Call_map_again(inverse)

SpecMap == Init /\ [][NextMap]_vars

---------------------------------------------------------------------------
(* Properties of construction and point mapping (SpecMap).                 *)

\* the last row of A is the homogeneous row (0, ..., 0, 1)
HomogeneousRow(A) ==
    A[Len(A)] = Tuple([j \in 1..Len(A) |-> IF j = Len(A) THEN R(1) ELSE R(0)])

\* the last two calls were map(P, inverse=False) and then map of its result
\* with inverse=True, on an Affine
RoundTrip ==
    /\ xfm # None /\ xfm.cls = "Affine"
    /\ result.op = "map" /\ prev # None
    /\ prev.inverse = FALSE /\ result.inverse = TRUE

\* C3: LinearTransformsMapping.map(P, inverse) at matrix index i equals
\* Affine(matrix_i).map(P, inverse), for every i; in particular
\* LinearTransformsMapping([T]).map(P) == Affine(T).map(P).
C3_MappingMapEqualsAffineMap ==
    (xfm # None /\ xfm.cls = "LinearTransformsMapping"
        /\ result.op = "map" /\ result.exc = "none")
    => \A i \in 1..len(heap, xfm) :
          LET one == LinearTransformsMapping_getitem(heap, xfm, i - 1)
              y == Affine_map(one.heap, one.self, result.x, result.inverse)
          IN  /\ y.exc = "none"
              /\ Array(Tail(result.value.shape), result.value.a[i]) = y.value

\* C5 as stated: on an Affine with an invertible matrix, mapping forward and
\* then inverse recovers the points; the default Affine() maps every point
\* to itself; on a matrix that is not invertible, inverse=True fails.
C5_RoundTripAnyInvertible ==
    /\ (RoundTrip /\ ~Singular(matrix(heap, xfm).a))
        => (result.exc = "none" /\ result.value.a = prev.x)
    /\ (xfm # None /\ xfm.cls = "Affine" /\ result.op = "map"
            /\ matrix(heap, xfm) = Mat(eye(4)))
        => (result.exc = "none" /\ result.value.a = result.x)
    /\ (xfm # None /\ xfm.cls = "Affine" /\ result.op = "map"
            /\ result.inverse = TRUE /\ Singular(matrix(heap, xfm).a))
        => result.exc = "LinAlgError"

\* C5 as amended: on an Affine whose matrix is invertible and has the
\* homogeneous last row (0, ..., 0, 1), mapping forward and then inverse
\* recovers the points, same points in the same order; the default Affine()
\* maps every point to itself; on a matrix that is not invertible,
\* inverse=True fails with an error instead of returning points.
C5_RoundTripHomogeneous ==
    /\ (RoundTrip /\ ~Singular(matrix(heap, xfm).a)
            /\ HomogeneousRow(matrix(heap, xfm).a))
        => (result.exc = "none" /\ result.value.a = prev.x)
    /\ (xfm # None /\ xfm.cls = "Affine" /\ result.op = "map"
            /\ matrix(heap, xfm) = Mat(eye(4)))
        => (result.exc = "none" /\ result.value.a = result.x)
    /\ (xfm # None /\ xfm.cls = "Affine" /\ result.op = "map"
            /\ result.inverse = TRUE /\ Singular(matrix(heap, xfm).a))
        => result.exc = "LinAlgError"

\* a round trip through a matrix that scales, shears and shifts: the points
\* moved, and came back
C5_Witness ==
    /\ RoundTrip /\ result.exc = "none"
    /\ matrix(heap, xfm).a = MatrixOf(2, 1, 1, 1)
    /\ Len(prev.x) = 2 /\ prev.x[1] # prev.x[2]
    /\ prev.value.a # prev.x
    /\ result.value.a = prev.x

---------------------------------------------------------------------------
(* Indexed access, and writes through the arrays the objects hand out.     *)

\* item = xfm[i]
Call_getitem(i) ==
    /\ xfm # None /\ xfm.cls = "LinearTransformsMapping"
    /\ Returned(LinearTransformsMapping_getitem(heap, xfm, i),
                [op |-> "getitem", i |-> i])
    /\ UNCHANGED <<xfm, files, written, prev>>

\* item.matrix[r, c] = v: the matrix property returns the internal array,
\* and the caller assigns into it
Call_setentry(r, c, v) ==
    /\ item # None
    /\ heap' = Store(heap, item._matrix, r, c, v)
    /\ result' = [op |-> "setentry", exc |-> "none"]
    /\ UNCHANGED <<xfm, item, files, written, prev>>

NextItem ==
    \/ \E descs \in {List(d) : d \in SeqsUpTo(SeriesElements, MaxN)},
          reference \in {None, ReferenceGrid} :
           New_Mapping(descs, reference)
    \/ \E i \in 0..MaxN : Call_getitem(i)
    \/ \E r \in {1, 4}, c \in {4} : Call_setentry(r, c, R(7))

SpecItem == Init /\ [][NextItem]_vars

\* C7: xfm[i] is a new Affine whose matrix equals the mapping's i-th matrix
\* and whose reference is the mapping's own reference object; its matrix
\* storage is not the mapping's, so a write through the returned Affine
\* leaves the mapping's matrices as they were; indexing leaves the
\* mapping's matrices, length and reference unchanged.
C7_GetItem ==
    /\ [](result.op = "getitem" /\ result.exc = "none"
            => /\ item.cls = "Affine"
               /\ matrix(heap, item)
                    = Deref(heap, [buf |-> xfm._matrix.buf,
                                   sel |-> <<result.i + 1>>])
               /\ item._reference = xfm._reference
               /\ item._matrix.buf # xfm._matrix.buf)
    /\ [][/\ result'.op = "setentry"
             => matrix(heap', xfm') = matrix(heap, xfm)
          /\ result'.op = "getitem"
             => /\ xfm' = xfm
                /\ matrix(heap', xfm') = matrix(heap, xfm)
                /\ len(heap', xfm') = len(heap, xfm)]_vars

\* the second element of a mapping with a reference was taken, and its
\* shift entry overwritten: the Affine changed, the mapping did not
C7_Witness ==
    /\ result.op = "setentry"
    /\ xfm # None /\ len(heap, xfm) = 2 /\ xfm._reference = ReferenceGrid
    /\ item # None /\ item._reference = ReferenceGrid
    /\ matrix(heap, item).a[1][4] = R(7)
    /\ \A i \in 1..2 : matrix(heap, xfm).a[i][1][4] # R(7)

---------------------------------------------------------------------------
(* Writing and reading transform files.                                    *)

to_filename(h, self, fs, filename, fmt, moving) ==
    IF self.cls = "LinearTransformsMapping"
    THEN LinearTransformsMapping_to_filename(h, self, fs, filename, fmt, moving)
    ELSE Affine_to_filename(h, self, fs, filename, fmt, moving)

\* each run builds a transform, writes it once and reads a file once
Built == result.op \in {"Affine", "LinearTransformsMapping"}
NotRead == result.op \in {"none", "Affine", "LinearTransformsMapping", "to_filename"}

\* xfm.to_filename(filename, fmt, moving); the formats that peek into the
\* grids are asked for only of a transform with a reference
Call_to_filename(filename, fmt, moving) ==
    /\ xfm # None /\ Built
    /\ lower(fmt) \in {"afni", "fsl", "fs"} => xfm._reference # None
    /\ LET r == to_filename(heap, xfm, files, filename, fmt, moving)
       IN  /\ files' = r.files
           /\ written' = IF r.exc # "none" THEN written
                         ELSE Write(written, filename,
                                  [cls |-> xfm.cls, matrix |-> matrix(heap, xfm),
                                   fmt |-> fmt, reference |-> xfm._reference])
           /\ result' = [op |-> "to_filename", exc |-> r.exc,
                         filename |-> filename, fmt |-> fmt]
    /\ UNCHANGED <<heap, xfm, item, prev>>

\* the file exists and is in the layout the key names
Readable(filename, fmt) ==
    /\ filename \in DOMAIN files
    /\ files[filename].format
         = (IF lower(fmt) \in {"lta", "fs"} THEN "lta" ELSE "itk")

\* item = cls.from_filename(filename, fmt, reference); a key with a reader
\* is given with a file of its layout
Call_from_filename(cls, filename, fmt, reference) ==
    /\ NotRead
    /\ lower(fmt) \in {"itk", "ants", "elastix", "lta", "fs"}
          => Readable(filename, fmt)
    /\ Returned(Affine_from_filename(heap, files, cls, filename, fmt,
                                     reference, None),
                [op |-> "from_filename", cls |-> cls, filename |-> filename,
                 fmt |-> fmt, reference |-> reference])
    /\ UNCHANGED <<xfm, files, written, prev>>

\* item = load(filename, fmt, reference)
Call_load(filename, fmt, reference) ==
    /\ NotRead
    /\ lower(fmt) \in {"itk", "ants", "elastix", "lta", "fs"}
          => Readable(filename, fmt)
    /\ Returned(load(heap, files, filename, fmt, reference, None),
                [op |-> "load", filename |-> filename, fmt |-> fmt,
                 reference |-> reference])
    /\ UNCHANGED <<xfm, files, written, prev>>

NextIO ==
    \/ \E m \in {Mat(M) : M \in FileMatrices},
          reference \in {None, ReferenceGrid} :
           New_Affine(m, reference)
    \/ \E descs \in {List(d) : d \in SeqsUpTo([as : {"matrix"},
                               m : {Mat(M) : M \in FileMatrices}], MaxN)},
          reference \in {None, ReferenceGrid} :
           New_Mapping(descs, reference)
    \/ \E filename \in Filenames, fmt \in FormatKeys,
          moving \in {None, MovingImage} :
           Call_to_filename(filename, fmt, moving)
    \/ \E cls \in {"Affine", "LinearTransformsMapping"},
          filename \in Filenames, fmt \in FormatKeys,
          reference \in {None, ReferenceGrid} :
           Call_from_filename(cls, filename, fmt, reference)
    \/ \E filename \in Filenames, fmt \in FormatKeys,
          reference \in {None, ReferenceGrid} :
           Call_load(filename, fmt, reference)

SpecIO == Init /\ [][NextIO]_vars

\* the file named in the last call was written by this run with the very
\* key F the last call read it with, by a transform of the class reading it
ReadBack ==
    /\ result.op = "from_filename"
    /\ result.filename \in DOMAIN written
    /\ written[result.filename].fmt = result.fmt
    /\ written[result.filename].cls = result.cls

\* C1, as stated: for every format key F that to_filename accepts (itk,
\* ants, elastix, afni, fsl, fs) and every transform T with a valid
\* reference/moving pair, from_filename(to_filename(T, fmt=F), fmt=F)
\* succeeds and reconstructs a transform whose matrix equals T's matrix.
C1_RoundTripEveryWriterKey ==
    ReadBack /\ lower(result.fmt) \in {"itk", "ants", "elastix",
                                       "afni", "fsl", "fs"}
        => /\ result.exc = "none"
           /\ matrix(heap, item) = written[result.filename].matrix

\* C1, amended: for the format keys itk, ants, elastix and fs (in any case)
\* and every transform T (for fs, with a reference), its class's
\* from_filename of the file T.to_filename wrote with the same key succeeds
\* and reconstructs a transform whose matrix equals T's matrix; for the
\* keys afni and fsl, which to_filename accepts too, from_filename fails
\* with NotImplementedError and returns no transform.
C1_RoundTripReaderKeys ==
    ReadBack
        => /\ lower(result.fmt) \in {"itk", "ants", "elastix", "fs"}
               => /\ result.exc = "none"
                  /\ item.cls = result.cls
                  /\ matrix(heap, item) = written[result.filename].matrix
           /\ lower(result.fmt) \in {"afni", "fsl"}
               => /\ result.exc = "NotImplementedError"
                  /\ item = None

\* a mapping of two different matrices, bound to a reference, was written
\* with the key "FS" and read back with it
C1_Witness ==
    /\ ReadBack /\ result.fmt = "FS" /\ result.exc = "none"
    /\ xfm.cls = "LinearTransformsMapping" /\ len(heap, xfm) = 2
    /\ matrix(heap, xfm).a[1] # matrix(heap, xfm).a[2]
    /\ item # None /\ item._matrix.buf # xfm._matrix.buf

\* the matrices of a written transform, in the order of the file
Stored(w) == IF w.cls = "Affine" THEN <<w.matrix.a>> ELSE w.matrix.a

\* C2: load of a file holding exactly one transform, with a key that has a
\* reader, returns a plain Affine (not a LinearTransformsMapping) carrying
\* that transform's matrix and the caller-supplied reference; of a file
\* holding N > 1 transforms it returns a LinearTransformsMapping of length
\* N with the matrices in file order, and the caller-supplied reference.
C2_LoadCollapse ==
    (/\ result.op = "load"
     /\ result.filename \in DOMAIN written
     /\ lower(result.fmt) \in {"itk", "ants", "elastix", "lta", "fs"})
        => /\ result.exc = "none"
           /\ item._reference = result.reference
           /\ Len(Stored(written[result.filename])) = 1
               => /\ item.cls = "Affine"
                  /\ matrix(heap, item)
                       = Mat(Stored(written[result.filename])[1])
           /\ Len(Stored(written[result.filename])) > 1
               => /\ item.cls = "LinearTransformsMapping"
                  /\ len(heap, item) = Len(Stored(written[result.filename]))
                  /\ matrix(heap, item).a = Stored(written[result.filename])

\* a mapping of length one was written and loaded with a reference: the
\* Affine that load returned carries the matrix and the reference
C2_Witness ==
    /\ result.op = "load" /\ result.exc = "none"
    /\ result.filename \in DOMAIN written
    /\ written[result.filename].cls = "LinearTransformsMapping"
    /\ Len(written[result.filename].matrix.a) = 1
    /\ result.reference = ReferenceGrid
    /\ item.cls = "Affine" /\ item._reference = ReferenceGrid

---------------------------------------------------------------------------
(* Resampling images.                                                      *)

\* the shapes of the images resampled: volumes of 2 x 2 x 2 voxels, one
\* slice, one row of voxels, series of T volumes, and a 5-D array
DataShapes ==
    {<<2, 2, 2>>, <<2, 2, 1>>, <<2, 1, 1>>, <<2, 2, 2, 2, 2>>}
        \cup {<<2, 2, 2, T>> : T \in 1..MaxVols}

\* the images resampled: moving images, shifted by 1 mm along x
SpatialImages == {Image("moving", shape, MovingImage.affine) :
                      shape \in DataShapes}

\* an image a caller names as reference: a series on a 1 x 2 x 1 grid
ReferenceImage == Image("fixed", <<1, 2, 1, 2>>, ReferenceGrid.affine)

\* a reference that is not a grid: three sampled points
ReferencePoints ==
    [cls |-> "SampledSpatialData", oid |-> "points", ndim |-> 3,
     coords |-> << <<R(0), R(0), R(0)>>, <<R(1), R(0), R(1)>>,
                   <<R(0), R(2), R(1)>> >>]

\* the matrices of the mappings applied
ApplyMatrices == {MatrixOf(1, 0, 1, 1), MatrixOf(2, 1, -1, 1)}

\* result = the outcome r of xfm.apply(spatialimage, reference)
Applied(r, spatialimage, reference) ==
    result' = [op |-> "apply", exc |-> r.exc, log |-> r.log,
               value |-> r.value, spatialimage |-> spatialimage,
               reference |-> reference]

\* xfm.apply(spatialimage, reference)
Call_apply(spatialimage, reference) ==
    /\ xfm # None /\ xfm.cls = "LinearTransformsMapping"
    /\ Applied(LinearTransformsMapping_apply(heap, xfm, spatialimage,
                                             reference),
               spatialimage, reference)
    /\ UNCHANGED <<heap, xfm, item, files, written, prev>>

NextApply ==
    \/ \E descs \in {List(d) : d \in SeqsUpTo([as : {"matrix"},
                               m : {Mat(M) : M \in ApplyMatrices}], MaxN)},
          reference \in {None, ReferenceGrid} :
           New_Mapping(descs, reference)
    \/ \E spatialimage \in SpatialImages,
          reference \in {None, ReferenceGrid, ReferenceImage,
                         ReferencePoints} :
           Call_apply(spatialimage, reference)

SpecApply == Init /\ [][NextApply]_vars

\* the reference the last apply sampled on, and the data it resampled
AppliedRef ==
    IF result.reference = None THEN reference_of(xfm)
    ELSE SpatialReference_factory(result.reference)

AppliedData == squeeze(result.spatialimage)

\* the last apply was given 4-D data
Applied4D == result.op = "apply" /\ Len(AppliedData.shape) = 4

\* the columns map_coordinates must be given for volume t (from 0): the
\* samples of the reference, mapped by Affine(matrix_t) and by no other
\* transform, as voxel indices of the image resampled
OwnTargets(t) ==
    first_T(ImageGrid_index(ImageGrid(result.spatialimage),
                as_homogeneous(
                    Affine_map(LinearTransformsMapping_getitem(heap, xfm, t).heap,
                               LinearTransformsMapping_getitem(heap, xfm, t).self,
                               ndcoords_T(AppliedRef), FALSE).value.a,
                    ref_ndim(AppliedRef))),
            ref_ndim(AppliedRef))

\* sample v (from 1) of volume t (from 0) of what the last apply returned
Resampled(t, v) ==
    IF AppliedRef.cls = "ImageGrid"
    THEN result.value.dataobj[(v - 1) * len(heap, xfm) + t + 1]
    ELSE result.value.a[t + 1][v]

\* C4: apply on 4-D data whose number of volumes differs from the length
\* of the mapping fails, with ValueError whenever a reference to sample on
\* is there, and before any call of map_coordinates is made for any
\* volume; no resampled output is produced.
C4_VolumeMismatch ==
    (Applied4D /\ AppliedData.shape[4] # len(heap, xfm))
        => /\ result.exc # "none"
           /\ AppliedRef # None => result.exc = "ValueError"
           /\ result.log = <<>>
           /\ result.value = None

\* a series of three volumes was applied a mapping of two transforms
C4_Witness ==
    /\ Applied4D /\ AppliedData.shape[4] = 3 /\ len(heap, xfm) = 2
    /\ result.exc = "ValueError" /\ result.log = <<>>

\* C9: in apply on 4-D data with T volumes and a mapping of length T, each
\* volume t is interpolated exactly once, at the sample locations computed
\* from transform t and from no other transform, and the results are
\* stacked in the order of the volumes, so that volume t of the output is
\* made of the samples of volume t of the input.
C9_PerVolume ==
    (Applied4D /\ AppliedRef # None
        /\ AppliedData.shape[4] = len(heap, xfm))
        => /\ result.exc = "none"
           /\ Len(result.log) = AppliedData.shape[4]
           /\ \A t \in 0..(AppliedData.shape[4] - 1) :
                /\ result.log[t + 1].input = volume(AppliedData, t)
                /\ result.log[t + 1].coordinates = OwnTargets(t)
                /\ \A v \in 1..Len(OwnTargets(t)[1]) :
                     Resampled(t, v)
                       = [of |-> volume(AppliedData, t),
                          at |-> Tuple([d \in 1..Len(OwnTargets(t)) |->
                                     OwnTargets(t)[d][v]])]

\* a series of two volumes was resampled on a grid by a mapping of two
\* different transforms
C9_Witness ==
    /\ Applied4D /\ result.exc = "none"
    /\ AppliedData.shape[4] = 2 /\ len(heap, xfm) = 2
    /\ matrix(heap, xfm).a[1] # matrix(heap, xfm).a[2]
    /\ AppliedRef.cls = "ImageGrid" /\ Prod(AppliedRef.shape) = 2
    /\ Len(result.log) = 2
    /\ result.log[1].coordinates # result.log[2].coordinates

\* C10: when the sampling reference is an image grid, every apply that
\* passes the check of the number of volumes returns an image whose shape
\* is the shape of the reference followed by one axis of length
\* len(mapping), for 2-D and 3-D data as well as for 4-D data: the samples
\* interpolated are len(mapping) times the voxels of the reference.
C10_GridImage ==
    (/\ result.op = "apply" /\ AppliedRef # None
     /\ AppliedRef.cls = "ImageGrid"
     /\ Len(AppliedData.shape) \in {2, 3, 4}
     /\ Len(AppliedData.shape) = 4
            => AppliedData.shape[4] = len(heap, xfm))
        => /\ result.exc = "none"
           /\ result.value.shape = AppliedRef.shape \o <<len(heap, xfm)>>
           /\ Len(result.value.dataobj)
                = len(heap, xfm) * Prod(AppliedRef.shape)

=============================================================================
